---- MODULE Spec2Model ----
(***************************************************************************)
(* Catalyst AI: the browser session of App (retry-with-backoff request     *)
(* wrapper, generateIdeas, visualizeConcept and the controls that start    *)
(* them).                                                                  *)
(*                                                                         *)
(* Specifications:                                                         *)
(*   SpecFetch  one fetchWithBackoff invocation on its own, maxRetries     *)
(*              drawn from 0..MaxRetriesArg, every response sequence       *)
(*              (SpecFetchFair: every fetch and timer completes);          *)
(*   Spec       the UI session: clicks, timers and network completions     *)
(*              interleaved, every invocation with the default maxRetries; *)
(*   SpecParse  the concept-list parser on numbered-list texts;            *)
(*   SpecProxy  the image proxy server handling POST /generate-image.      *)
(*                                                                         *)
(* A nullable JavaScript value is <<>> (null/undefined) or <<v>>.          *)
(***************************************************************************)
EXTENDS Integers, Sequences, FiniteSets, TLC

VARIABLES
    brief,           \* useState brief: "" or a non-empty text
    apiKey,          \* useState apiKey
    concepts,        \* useState concepts: sequence of [id, text, imageUrl]
    isLoadingIdeas,  \* useState isLoadingIdeas
    loadingImageId,  \* useState loadingImageId: nullable concept id
    error,           \* useState error: nullable message
    calls,           \* the async invocations of generateIdeas/visualizeConcept not yet completed
    now,             \* Date.now()
    console,         \* the last console.error line, nullable
    fw,              \* SpecFetch: the frame of the fetchWithBackoff invocation under study
    seen,            \* SpecFetch: the responses that invocation received, in order
    parser,          \* SpecParse: a generated text, the pieces it is made of, the parsed list
    proxy            \* SpecProxy: the requests of POST /generate-image, one record each

vars ==
    <<brief, apiKey, concepts, isLoadingIdeas, loadingImageId, error, calls, now, console,
      fw, seen, parser, proxy>>

uiVars == <<brief, apiKey, concepts, isLoadingIdeas, loadingImageId, error, calls, now, console>>

Null == <<>>

Some(v) == <<v>>

----------------------------------------------------------------------------
(* Bounds *)

\* largest maxRetries argument tried in SpecFetch
MaxRetriesArg == 5

\* largest value of the clock Date.now() in the UI session
MaxNow == 1

\* largest number of list markers of a text in SpecParse
MaxItems == 3

\* largest number of requests the proxy receives in SpecProxy
MaxRequests == 2

(* Program constants *)

\* let delay = 1000
InitialDelay == 1000

\* maxRetries = 5
DefaultMaxRetries == 5

\* response.status === 429
TooManyRequests == 429

----------------------------------------------------------------------------
(* Responses of fetch(url, options).                                       *)
(*   kind     "network": fetch itself rejects; "http": a Response arrives  *)
(*   status   the HTTP status (response.ok is 200..299)                    *)
(*   json     whether response.json() parses the body                      *)
(*   message  errData.error?.message of an error body, nullable            *)
(*   text     result.candidates[0].content.parts[0].text, nullable         *)
(*   b64      result.predictions[0].bytesBase64Encoded, nullable           *)

Resp(kind, status, json, message, text, b64) ==
    [kind |-> kind, status |-> status, json |-> json, message |-> message,
     text |-> text, b64 |-> b64]

NetworkFailure == Resp("network", 0, FALSE, Some("Failed to fetch"), Null, Null)

RateLimited == Resp("http", TooManyRequests, TRUE, Null, Null, Null)

ErrorStatuses == {500}

\* non-OK, non-429 responses: a provider message, an empty message, no message, an unparseable body
ErrorResponses ==
    UNION {{Resp("http", s, TRUE, Some("Quota exceeded"), Null, Null),
            Resp("http", s, TRUE, Some(""), Null, Null),
            Resp("http", s, TRUE, Null, Null, Null),
            Resp("http", s, FALSE, Null, Null, Null)} : s \in ErrorStatuses}

OkMalformed == Resp("http", 200, FALSE, Null, Null, Null)

FailedResponses == {NetworkFailure, RateLimited} \cup ErrorResponses

IsOk(r) == r.kind = "http" /\ r.status >= 200 /\ r.status <= 299

\* what response.json() rejects with on an unparseable body
SyntaxErrorMessage == "Unexpected token < in JSON at position 0"

RetriesExhaustedMessage == "Request failed after multiple retries."

\* errData.error?.message || `HTTP error! status: ${response.status}`
HttpErrorMessage(r) ==
    IF r.message # Null /\ r.message[1] # ""
    THEN r.message[1]
    ELSE "HTTP error! status: " \o ToString(r.status)

----------------------------------------------------------------------------
(* fetchWithBackoff: one frame per invocation.                             *)
(*   pc     "fetch"     awaiting fetch(url, options) of attempt i          *)
(*          "sleep"     awaiting the timer of the 429 branch or of the     *)
(*                      catch block (both go on with delay *= 2 and i++)   *)
(*          "returned"  resolved with ret                                  *)
(*          "threw"     rejected with an Error whose message is err        *)
(*   sent   the requests issued, in order (url, options)                   *)
(*   waits  the delays of the timers started, in order                     *)

Frame(url, options, maxRetries) ==
    [url |-> url, options |-> options, maxRetries |-> maxRetries,
     i |-> 0, delay |-> InitialDelay, pc |-> "init",
     ret |-> Null, err |-> Null,
     sent |-> <<>>, waits |-> <<>>]

Throw(f, message) == [f EXCEPT !.pc = "threw", !.err = Some(message)]

\* mutation of LoopHead: the loop condition is i <= maxRetries
LoopHeadOffByOne(f) ==
    IF f.i <= f.maxRetries
    THEN [f EXCEPT !.pc = "fetch", !.sent = Append(@, <<f.url, f.options>>)]
    ELSE Throw(f, RetriesExhaustedMessage)

\* for (...; i < maxRetries; ...) { response = await fetch(url, options) ... }
\* throw new Error("Request failed after multiple retries.")
LoopHead(f) ==
    IF f.i < f.maxRetries
    THEN [f EXCEPT !.pc = "fetch", !.sent = Append(@, <<f.url, f.options>>)]
    ELSE Throw(f, RetriesExhaustedMessage)

\* the call itself: runs to the first await
fetchWithBackoff(url, options, maxRetries) == LoopHead(Frame(url, options, maxRetries))

\* await new Promise(res => setTimeout(res, delay))
Sleep(f) == [f EXCEPT !.pc = "sleep", !.waits = Append(@, f.delay)]

\* mutation of Catch: the last attempt's error is retried like the others
CatchAlwaysRetries(f, message) == Sleep(f)

\* catch (e) { if (i === maxRetries - 1) throw e; await timer; delay *= 2 }
Catch(f, message) ==
    IF f.i = f.maxRetries - 1 THEN Throw(f, message) ELSE Sleep(f)

\* if (response.ok) return response.json()
\* the promise is returned, not awaited: a rejection of json() escapes the catch block
OkBranch(f, r) ==
    IF r.json THEN [f EXCEPT !.pc = "returned", !.ret = Some(r)]
    ELSE Throw(f, SyntaxErrorMessage)

\* mutation of RateLimitBranch: a 429 is thrown like any other non-OK status on the last attempt
RateLimitBranchFatal(f) == Throw(f, "HTTP error! status: 429")

\* else if (response.status === 429) { await timer; delay *= 2 }
RateLimitBranch(f) == Sleep(f)

\* mutation of ErrorBranch: the error of a non-OK response leaves the function at once
ErrorBranchFailsAtOnce(f, r) ==
    Throw(f, IF r.json THEN HttpErrorMessage(r) ELSE SyntaxErrorMessage)

\* else { errData = await response.json(); throw new Error(...) }, inside the try block
ErrorBranch(f, r) ==
    IF ~r.json THEN Catch(f, SyntaxErrorMessage) ELSE Catch(f, HttpErrorMessage(r))

\* the body of the try block once fetch has settled with r
OnResponse(f, r) ==
    IF r.kind = "network" THEN Catch(f, r.message[1])
    ELSE IF IsOk(r) THEN OkBranch(f, r)
    ELSE IF r.status = TooManyRequests THEN RateLimitBranch(f)
    ELSE ErrorBranch(f, r)

\* mutation of OnTimer: the delay is not doubled
OnTimerNoDoubling(f) == LoopHead([f EXCEPT !.i = @ + 1])

\* the timer fires: delay *= 2, i++, back to the loop head
OnTimer(f) == LoopHead([f EXCEPT !.delay = @ * 2, !.i = @ + 1])

Settled(f) == f.pc \in {"returned", "threw"}

Sleeping(f) == f.pc = "sleep"

----------------------------------------------------------------------------
(* The concept-list parser of generateIdeas. A text is a sequence of       *)
(* one-character strings.                                                  *)

IsDigit(c) == c \in {"0", "1", "2", "3", "4", "5", "6", "7", "8", "9"}

IsSpace(c) == c \in {" ", "\n", "\t", "\r"}

RECURSIVE SkipWhile(_, _, _)
\* the first position >= p of s whose character is not of the class (Len(s)+1 when none)
SkipWhile(s, p, digits) ==
    IF p <= Len(s) /\ (IF digits THEN IsDigit(s[p]) ELSE IsSpace(s[p]))
    THEN SkipWhile(s, p + 1, digits)
    ELSE p

\* /\d+\.\s+/ matched at position p: the position after the match, 0 when there is none
MatchEnd(s, p) ==
    LET q == SkipWhile(s, p, TRUE) IN
    IF q > p /\ q + 1 <= Len(s) /\ s[q] = "." /\ IsSpace(s[q + 1])
    THEN SkipWhile(s, q + 1, FALSE)
    ELSE 0

RECURSIVE SplitFrom(_, _, _)
\* text.split(/\d+\.\s+/): the fragment that starts at `start`, scanned up to p, and the rest
SplitFrom(s, start, p) ==
    IF p > Len(s) THEN <<SubSeq(s, start, Len(s))>>
    ELSE IF MatchEnd(s, p) > 0
         THEN <<SubSeq(s, start, p - 1)>> \o SplitFrom(s, MatchEnd(s, p), MatchEnd(s, p))
         ELSE SplitFrom(s, start, p + 1)

Split(s) == SplitFrom(s, 1, 1)

RECURSIVE TrimStart(_)
TrimStart(s) == IF s # <<>> /\ IsSpace(Head(s)) THEN TrimStart(Tail(s)) ELSE s

RECURSIVE TrimEnd(_)
TrimEnd(s) ==
    IF s # <<>> /\ IsSpace(s[Len(s)]) THEN TrimEnd(SubSeq(s, 1, Len(s) - 1)) ELSE s

\* String.prototype.trim
Trim(s) == TrimEnd(TrimStart(s))

\* mutation of NonEmptyFragments: nothing is filtered out
AllFragments(s) == Split(s)

\* .filter(c => c.trim().length > 0)
NonEmptyFragments(s) == SelectSeq(Split(s), LAMBDA c : Len(Trim(c)) > 0)

\* .map((conceptText, index) => ({ id: Date.now() + index, text: conceptText.trim(), imageUrl: null }))
\* clock[k] is what Date.now() returns for the k-th fragment
ParseConcepts(s, clock) ==
    [k \in 1..Len(NonEmptyFragments(s)) |->
        [id |-> clock[k] + (k - 1), text |-> Trim(NonEmptyFragments(s)[k]), imageUrl |-> Null]]

----------------------------------------------------------------------------
(* The UI session                                                          *)

Briefs == {"", "Client: Aqua Pura"}

ApiKeys == {"", "key"}

\* "1. A\n2. B\n3. "
TextAlphaBeta == <<"1", ".", " ", "A", "\n", "2", ".", " ", "B", "\n", "3", ".", " ">>

\* OK responses of the text endpoint: no candidates, an empty text, a numbered list
IdeasOk ==
    {Resp("http", 200, TRUE, Null, t, Null) : t \in {Null, Some(<<>>), Some(TextAlphaBeta)}}

\* OK responses of the image endpoint: no predictions, an empty payload, an image
ImageOk ==
    {Resp("http", 200, TRUE, Null, Null, b) : b \in {Null, Some(""), Some("QUJD")}}

\* failures of the session's requests: rate limiting, a provider error, no network
SessionFailures ==
    {RateLimited, Resp("http", 500, TRUE, Some("Quota exceeded"), Null, Null), NetworkFailure}

Responses(kind) == SessionFailures \cup (IF kind = "ideas" THEN IdeasOk ELSE ImageOk)

\* the generateContent / predict endpoints (the ?key=${apiKey} query is left out)
ApiUrl(kind) ==
    IF kind = "ideas" THEN "gemini-1.5-flash:generateContent"
    ELSE "imagen-3.0-generate-002:predict"

\* the ids of a concept list, in order
Ids(list) == [k \in 1..Len(list) |-> list[k].id]

\* an invocation of generateIdeas or visualizeConcept suspended in its await
\*   shown     history: the ids of the concepts on display when a generation started,
\*             which it replaces (an image invocation replaces no list and keeps none)
\*   replaced  history: a generation has started, and replaced the list, since this
\*             invocation started
Call(kind, conceptId, url, options, shown) ==
    [kind |-> kind, conceptId |-> conceptId, shown |-> Ids(shown), replaced |-> FALSE,
     f |-> fetchWithBackoff(url, options, DefaultMaxRetries)]

\* the invocations in flight when setConcepts([]) replaces the list they started from
Replaced(cs) == [k \in 1..Len(cs) |-> [cs[k] EXCEPT !.replaced = TRUE]]

InFlight(kind) == {k \in 1..Len(calls) : calls[k].kind = kind}

Without(seq, k) == SubSeq(seq, 1, k - 1) \o SubSeq(seq, k + 1, Len(seq))

\* the useState initial values
InitUI ==
    /\ brief = "Client: Aqua Pura"
    /\ apiKey = ""
    /\ concepts = <<>>
    /\ isLoadingIdeas = FALSE
    /\ loadingImageId = Null
    /\ error = Null
    /\ calls = <<>>
    /\ now = 0
    /\ console = Null

\* no text under study, no proxy request
Idle ==
    /\ parser = [frags |-> <<>>, marks |-> <<>>, text |-> <<>>, result |-> Null]
    /\ proxy = <<>>

Init ==
    /\ InitUI
    /\ fw = Frame("url", "options", 0)
    /\ seen = <<>>
    /\ Idle

\* <textarea onChange={(e) => setBrief(e.target.value)}>
setBrief ==
    /\ \E b \in Briefs \ {brief} : brief' = b
    /\ UNCHANGED <<apiKey, concepts, isLoadingIdeas, loadingImageId, error, calls, now, console, fw, seen, parser, proxy>>

\* <input id="api-key" onChange={(e) => setApiKey(e.target.value)}>
setApiKey ==
    /\ \E k \in ApiKeys \ {apiKey} : apiKey' = k
    /\ UNCHANGED <<brief, concepts, isLoadingIdeas, loadingImageId, error, calls, now, console, fw, seen, parser, proxy>>

\* the error panel's close button: onClick={() => setError(null)}
dismissError ==
    /\ error # Null
    /\ error' = Null
    /\ UNCHANGED <<brief, apiKey, concepts, isLoadingIdeas, loadingImageId, calls, now, console, fw, seen, parser, proxy>>

\* the wall clock advances
Tick ==
    /\ now < MaxNow
    /\ now' = now + 1
    /\ UNCHANGED <<brief, apiKey, concepts, isLoadingIdeas, loadingImageId, error, calls, console, fw, seen, parser, proxy>>

\* mutation of GenerateEnabled: the button is not disabled while a generation runs
GenerateEnabledWhileLoading == apiKey # ""

\* Generate Ideas button: disabled={isLoadingIdeas || !apiKey}
GenerateEnabled == ~isLoadingIdeas /\ apiKey # ""

\* mutation of VisualizeEnabled: the button is never disabled
VisualizeAlwaysEnabled == TRUE

\* Visualize button of a ConceptCard: disabled={loadingImageId !== null}
VisualizeEnabled == loadingImageId = Null

\* mutation of BriefMissing: the brief is not validated
BriefNeverMissing == FALSE

\* if (!brief) { setError('Please enter a creative brief.'); return; }
BriefMissing == brief = ""

\* mutation of ClearedConcepts: the list is not cleared when a generation starts
KeptConcepts == concepts

\* setConcepts([]) at the start of generateIdeas
ClearedConcepts == <<>>

\* a click on Generate Ideas: generateIdeas up to its await
generateIdeas ==
    /\ GenerateEnabled
    /\ IF BriefMissing
       THEN /\ error' = Some("Please enter a creative brief.")
            /\ UNCHANGED <<concepts, isLoadingIdeas, calls>>
       ELSE /\ isLoadingIdeas' = TRUE
            /\ error' = Null
            /\ concepts' = ClearedConcepts
            /\ calls' = Append(Replaced(calls),
                               Call("ideas", Null, ApiUrl("ideas"), brief, concepts))
    /\ UNCHANGED <<brief, apiKey, loadingImageId, now, console, fw, seen, parser, proxy>>

\* a click on Visualize of a displayed concept: visualizeConcept up to its await
visualizeConcept ==
    /\ VisualizeEnabled
    /\ \E k \in 1..Len(concepts) :
          /\ loadingImageId' = Some(concepts[k].id)
          /\ error' = Null
          /\ calls' = Append(calls, Call("image", Some(concepts[k].id), ApiUrl("image"),
                                         concepts[k].text, <<>>))
    /\ UNCHANGED <<brief, apiKey, concepts, isLoadingIdeas, now, console, fw, seen, parser, proxy>>

\* !text: the candidate text is missing or empty
TextMissing(r) == r.text = Null \/ r.text[1] = <<>>

\* predictions[0].bytesBase64Encoded is missing or empty
ImageMissing(r) == r.b64 = Null \/ r.b64[1] = ""

\* `data:image/png;base64,${bytesBase64Encoded}`
DataUrl(b64) == "data:image/png;base64," \o b64

\* mutation of WithImage: the id is not compared
WithImageOnAll(prevConcepts, conceptId, imageUrl) ==
    [k \in 1..Len(prevConcepts) |-> [prevConcepts[k] EXCEPT !.imageUrl = Some(imageUrl)]]

\* prevConcepts.map(c => (c.id === conceptId ? { ...c, imageUrl } : c))
WithImage(prevConcepts, conceptId, imageUrl) ==
    [k \in 1..Len(prevConcepts) |->
        IF prevConcepts[k].id = conceptId
        THEN [prevConcepts[k] EXCEPT !.imageUrl = Some(imageUrl)]
        ELSE prevConcepts[k]]

\* mutation of Report: the error is logged and not shown
ReportWithoutSetError(label, prefix, message) ==
    /\ console' = Some(<<label, message>>)
    /\ error' = error

\* catch (err) { console.error(label, err); setError(`${prefix} ${err.message}`) }
Report(label, prefix, message) ==
    /\ console' = Some(<<label, message>>)
    /\ error' = Some(prefix \o " " \o message)

\* generateIdeas after its await: f is the settled frame of its fetchWithBackoff
IdeasSettled(k, f) ==
    /\ calls' = Without(calls, k)
    /\ isLoadingIdeas' = FALSE
    /\ IF f.pc = "returned" /\ ~TextMissing(f.ret[1])
       THEN \E tick \in {t \in 0..1 : now + t <= MaxNow} :
              /\ concepts' = ParseConcepts(f.ret[1].text[1],
                                [j \in 1..Len(f.ret[1].text[1]) |-> IF j = 1 THEN now ELSE now + tick])
              /\ now' = now + tick
              /\ UNCHANGED <<error, console>>
       ELSE /\ Report("Error generating ideas:", "Failed to generate ideas.",
                      IF f.pc = "returned" THEN "Invalid response structure from API." ELSE f.err[1])
            /\ UNCHANGED <<concepts, now>>
    /\ UNCHANGED <<brief, apiKey, loadingImageId, fw, seen, parser, proxy>>

\* visualizeConcept after its await
ImageSettled(k, f) ==
    /\ calls' = Without(calls, k)
    /\ loadingImageId' = Null
    /\ IF f.pc = "returned" /\ ~ImageMissing(f.ret[1])
       THEN /\ concepts' = WithImage(concepts, calls[k].conceptId[1], DataUrl(f.ret[1].b64[1]))
            /\ UNCHANGED <<error, console>>
       ELSE /\ Report("Error visualizing concept:", "Failed to generate image.",
                      IF f.pc = "returned" THEN "No image data received from API." ELSE f.err[1])
            /\ UNCHANGED concepts
    /\ UNCHANGED <<brief, apiKey, isLoadingIdeas, now, fw, seen, parser, proxy>>

\* invocation k moves from frame calls[k].f to f: it stays suspended, or its caller resumes
Resume(k, f) ==
    IF Settled(f)
    THEN IF calls[k].kind = "ideas" THEN IdeasSettled(k, f) ELSE ImageSettled(k, f)
    ELSE /\ calls' = [calls EXCEPT ![k].f = f]
         /\ UNCHANGED <<brief, apiKey, concepts, isLoadingIdeas, loadingImageId, error, now, console, fw, seen, parser, proxy>>

\* the frames invocation k can move to in one step
Outcomes(k) ==
    IF calls[k].f.pc = "fetch"
    THEN {OnResponse(calls[k].f, r) : r \in Responses(calls[k].kind)}
    ELSE IF Sleeping(calls[k].f) THEN {OnTimer(calls[k].f)} ELSE {}

\* the caller of a settled frame takes its catch block
Fails(kind, f) ==
    \/ f.pc = "threw"
    \/ f.pc = "returned" /\ (IF kind = "ideas" THEN TextMissing(f.ret[1]) ELSE ImageMissing(f.ret[1]))

\* the fetch of invocation k settles
Respond ==
    \E k \in 1..Len(calls) :
        /\ calls[k].f.pc = "fetch"
        /\ \E r \in Responses(calls[k].kind) : Resume(k, OnResponse(calls[k].f, r))

\* the backoff timer of invocation k fires
Timeout ==
    \E k \in 1..Len(calls) :
        /\ Sleeping(calls[k].f)
        /\ Resume(k, OnTimer(calls[k].f))

Next ==
    \/ setBrief
    \/ setApiKey
    \/ dismissError
    \/ Tick
    \/ generateIdeas
    \/ visualizeConcept
    \/ Respond
    \/ Timeout

Spec == Init /\ [][Next]_vars

----------------------------------------------------------------------------
(* SpecFetch: one invocation of fetchWithBackoff, every maxRetries in      *)
(* 0..MaxRetriesArg and every sequence of responses.                       *)

\* bodies an OK response of the endpoint under study may carry
PlainOk == Resp("http", 200, TRUE, Null, Null, Some("QUJD"))

FetchResponses == FailedResponses \cup {PlainOk, OkMalformed}

InitFetch ==
    /\ InitUI
    /\ \E m \in 0..MaxRetriesArg : fw = fetchWithBackoff("url", "options", m)
    /\ seen = <<>>
    /\ Idle

\* fetch(url, options) of the current attempt settles with r
FetchSettles ==
    /\ fw.pc = "fetch"
    /\ \E r \in FetchResponses :
          /\ fw' = OnResponse(fw, r)
          /\ seen' = Append(seen, r)
    /\ UNCHANGED <<uiVars, parser, proxy>>

\* the setTimeout of the current wait fires
TimerFires ==
    /\ Sleeping(fw)
    /\ fw' = OnTimer(fw)
    /\ UNCHANGED <<uiVars, seen, parser, proxy>>

NextFetch == FetchSettles \/ TimerFires

SpecFetch == InitFetch /\ [][NextFetch]_vars

\* every fetch settles and every timer fires
SpecFetchFair == SpecFetch /\ WF_vars(FetchSettles) /\ WF_vars(TimerFires)

----------------------------------------------------------------------------
(* SpecParse: the parser of generateIdeas applied to generated texts made  *)
(* of up to MaxItems list markers with a fragment before, between and      *)
(* after them.                                                             *)

Alpha == <<"A", "l", "p", "h", "a">>

Beta == <<"B", "e", "t", "a">>

\* the k-th marker of a numbered list: "k. ", or "1k.\n " (two digits, two blanks)
Marker(k, long) ==
    IF long THEN <<"1", ToString(k), ".", "\n", " ">> ELSE <<ToString(k), ".", " ">>

\* what the model writes between markers: nothing, blanks, a line, a line that holds
\* digits and a period but no marker
Fragments ==
    {<<>>, <<" ", "\n">>, Alpha \o <<"\n">>, Beta \o <<"\n">>, <<"v", "1", ".", "5", " ", "x">>}

RECURSIVE Compose(_, _)
\* the text frags[1] marks[1] frags[2] ... marks[n] frags[n+1]
Compose(frags, marks) ==
    IF marks = <<>> THEN frags[1]
    ELSE frags[1] \o marks[1] \o Compose(Tail(frags), Tail(marks))

\* "1. Alpha\n2. Beta\n3. "
TextExample ==
    Compose(<<<<>>, Alpha \o <<"\n">>, Beta \o <<"\n">>, <<>>>>,
            <<Marker(1, FALSE), Marker(2, FALSE), Marker(3, FALSE)>>)

\* const text = result?.candidates?.[0]?.content?.parts?.[0]?.text
InitParse ==
    /\ InitUI
    /\ fw = Frame("url", "options", 0)
    /\ seen = <<>>
    /\ proxy = <<>>
    /\ \E n \in 0..MaxItems :
          \E frags \in [1..(n + 1) -> Fragments], long \in [1..n -> BOOLEAN] :
              LET marks == [k \in 1..n |-> Marker(k, long[k])] IN
              parser = [frags |-> frags, marks |-> marks, text |-> Compose(frags, marks),
                        result |-> Null]

\* const parsedConcepts = text.split(...).filter(...).map(...); the clock may advance
\* by a millisecond during the map
parseText ==
    /\ parser.result = Null
    /\ \E tick \in 0..1 :
          parser' = [parser EXCEPT !.result =
                        Some(ParseConcepts(parser.text,
                                 [j \in 1..(Len(parser.text) + 1) |-> IF j = 1 THEN 0 ELSE tick]))]
    /\ UNCHANGED <<uiVars, fw, seen, proxy>>

NextParse == parseText

SpecParse == InitParse /\ [][NextParse]_vars

----------------------------------------------------------------------------
(* SpecProxy: the proxy server. One record per POST /generate-image        *)
(* request, each handled on its own:                                       *)
(*   prompt     req.body.prompt, nullable                                  *)
(*   pc         "getClient", "getAccessToken", "fetch": the await the      *)
(*              handler is suspended in; "done": the handler has returned  *)
(*   auth       number of credential acquisitions started (getClient)      *)
(*   failed     history: the credential step that rejected, nullable       *)
(*   sent       the requests sent upstream                                 *)
(*   got        history: what the upstream fetch settled with, nullable    *)
(*   logged     the console.error line of the catch block, nullable        *)
(*   responses  the responses sent to the caller: [status, error, data]    *)

\* req.body.prompt: missing, empty, a prompt
Prompts == {Null, Some(""), Some("a cat")}

\* mutation of PromptMissing: only a missing prompt is refused
PromptUndefined(prompt) == prompt = Null

\* !prompt
PromptMissing(prompt) == prompt = Null \/ prompt[1] = ""

\* `https://${LOCATION}-aiplatform.googleapis.com/v1/projects/${PROJECT_ID}/.../${MODEL}:predict`
PredictUrl ==
    "https://us-central1-aiplatform.googleapis.com/v1/projects/gemini-429018"
        \o "/locations/us-central1/publishers/google/models/imagen-3.0-generate-002:predict"

\* what getClient() / getAccessToken() reject with
CredentialsMessage == "Could not load the default credentials."

\* res.status(status).json({ error })
ErrorReply(status, message) == [status |-> status, error |-> Some(message), data |-> Null]

\* res.json(data): status 200, the provider's payload
DataReply(r) == [status |-> 200, error |-> Null, data |-> Some(r.b64)]

\* the handler has started: const { prompt } = req.body
Request(prompt) ==
    [prompt |-> prompt, pc |-> "getClient", auth |-> 0, failed |-> Null, sent |-> <<>>,
     got |-> Null, logged |-> Null, responses |-> <<>>]

\* return res.status(400).json({ error: 'Prompt is required.' })
Refuse(q) ==
    [q EXCEPT !.pc = "done", !.responses = Append(@, ErrorReply(400, "Prompt is required."))]

\* catch (error) { console.error(...); res.status(500).json({ error: error.message }) }
CatchProxy(q, message) ==
    [q EXCEPT !.pc = "done", !.logged = Some(message),
              !.responses = Append(@, ErrorReply(500, message))]

\* mutation of Relay: response.ok is not looked at
RelayUnchecked(q, r) ==
    IF r.kind = "network" THEN CatchProxy(q, r.message[1])
    ELSE IF ~r.json THEN CatchProxy(q, SyntaxErrorMessage)
    ELSE [q EXCEPT !.pc = "done", !.responses = Append(@, DataReply(r))]

\* the handler after await fetch(apiUrl, ...): lines 50-56 and the catch block
Relay(q, r) ==
    IF r.kind = "network" THEN CatchProxy(q, r.message[1])
    ELSE IF ~r.json THEN CatchProxy(q, SyntaxErrorMessage)
    ELSE IF ~IsOk(r) THEN CatchProxy(q, HttpErrorMessage(r))
    ELSE [q EXCEPT !.pc = "done", !.responses = Append(@, DataReply(r))]

\* what the upstream predict call settles with
UpstreamResponses == FailedResponses \cup {PlainOk, OkMalformed}

InitProxy ==
    /\ InitUI
    /\ fw = Frame("url", "options", 0)
    /\ seen = <<>>
    /\ Idle

\* a request arrives: the handler runs to its first await or to the 400 response
receive ==
    /\ Len(proxy) < MaxRequests
    /\ \E prompt \in Prompts :
          proxy' = Append(proxy,
                      IF PromptMissing(prompt) THEN Refuse(Request(prompt))
                      ELSE [Request(prompt) EXCEPT !.auth = 1])
    /\ UNCHANGED <<uiVars, fw, seen, parser>>

\* await auth.getClient() settles; then client.getAccessToken()
clientSettles ==
    /\ \E k \in 1..Len(proxy) :
          /\ proxy[k].pc = "getClient"
          /\ \/ proxy' = [proxy EXCEPT ![k].pc = "getAccessToken"]
             \/ proxy' = [proxy EXCEPT ![k] = CatchProxy([@ EXCEPT !.failed = Some("getClient")],
                                                        CredentialsMessage)]
    /\ UNCHANGED <<uiVars, fw, seen, parser>>

\* await client.getAccessToken() settles; then fetch(apiUrl, { ... Bearer token ... })
tokenSettles ==
    /\ \E k \in 1..Len(proxy) :
          /\ proxy[k].pc = "getAccessToken"
          /\ \/ proxy' = [proxy EXCEPT ![k].pc = "fetch",
                                        ![k].sent = Append(@, [url |-> PredictUrl,
                                                               authorization |-> "Bearer token",
                                                               prompt |-> proxy[k].prompt[1]])]
             \/ proxy' = [proxy EXCEPT ![k] = CatchProxy([@ EXCEPT !.failed = Some("getAccessToken")],
                                                        CredentialsMessage)]
    /\ UNCHANGED <<uiVars, fw, seen, parser>>

\* await fetch(apiUrl, ...) settles; the handler runs to its response
upstreamSettles ==
    /\ \E k \in 1..Len(proxy) :
          /\ proxy[k].pc = "fetch"
          /\ \E r \in UpstreamResponses :
                proxy' = [proxy EXCEPT ![k] = Relay([@ EXCEPT !.got = Some(r)], r)]
    /\ UNCHANGED <<uiVars, fw, seen, parser>>

NextProxy == receive \/ clientSettles \/ tokenSettles \/ upstreamSettles

SpecProxy == InitProxy /\ [][NextProxy]_vars

\* every awaited promise of a handler settles
SpecProxyFair ==
    SpecProxy /\ WF_vars(clientSettles) /\ WF_vars(tokenSettles) /\ WF_vars(upstreamSettles)

----------------------------------------------------------------------------
(* Properties of fetchWithBackoff, checked under SpecFetch                 *)

Last(q) == q[Len(q)]

Is429(r) == r.kind = "http" /\ r.status = 429

IsErrorResponse(r) == r.kind = "http" /\ ~IsOk(r) /\ r.status # 429

AttemptFailed(r) == r.kind = "network" \/ Is429(r) \/ IsErrorResponse(r)

\* C1: while every attempt so far was answered 429 and the budget is not used up the
\* call goes on (it waits or retries, it does not fail), and when j < maxRetries
\* attempts answered 429 are followed by an OK response with a JSON body, the call
\* returns that body and raises no error.
C1_RateLimitedThenOkReturns ==
    /\ ((\A k \in 1..Len(seen) : Is429(seen[k])) /\ Len(seen) < fw.maxRetries)
          => (fw.pc \in {"fetch", "sleep"} /\ fw.err = Null)
    /\ (/\ Len(seen) >= 1
        /\ \A k \in 1..(Len(seen) - 1) : Is429(seen[k])
        /\ IsOk(Last(seen)) /\ Last(seen).json)
          => (fw.pc = "returned" /\ fw.ret = Some(Last(seen)) /\ fw.err = Null)

\* two 429 answers, then the OK response: returned on the third attempt
C1_Witness ==
    /\ Len(seen) = 3 /\ Is429(seen[1]) /\ Is429(seen[2]) /\ IsOk(seen[3])
    /\ fw.pc = "returned" /\ fw.ret = Some(seen[3])

\* C3 (as claimed): a non-OK response other than 429 whose body parses ends the call
\* at once, with the message of the body or the HTTP status fallback, and no further
\* request follows it, whichever attempt it answers.
C3_ErrorResponseFailsImmediately ==
    \A k \in 1..Len(seen) :
        IsErrorResponse(seen[k]) /\ seen[k].json
            => /\ Len(fw.sent) = k
               /\ fw.pc = "threw"
               /\ fw.err = Some(HttpErrorMessage(seen[k]))

\* C4: once all maxRetries >= 1 attempts have failed, the call has thrown or is in
\* the wait that follows a last 429; when it has thrown, the message is not empty:
\* the generic one after a last 429, else the message of the error the last attempt
\* threw (the network error, the body's parse error, the error made from the body).
C4_ExhaustedFailsWithMessage ==
    fw.maxRetries >= 1 /\ Len(seen) = fw.maxRetries /\ (\A k \in 1..Len(seen) : AttemptFailed(seen[k]))
        => /\ fw.pc = "threw" \/ (fw.pc = "sleep" /\ Is429(Last(seen)))
           /\ fw.ret = Null
           /\ fw.pc = "threw" =>
                /\ fw.err # Null /\ fw.err[1] # ""
                /\ Is429(Last(seen)) => fw.err = Some("Request failed after multiple retries.")
                /\ Last(seen).kind = "network" => fw.err = Last(seen).message
                /\ IsErrorResponse(Last(seen)) /\ ~Last(seen).json => fw.err = Some(SyntaxErrorMessage)
                /\ IsErrorResponse(Last(seen)) /\ Last(seen).json
                      => fw.err = Some(IF Last(seen).message \in {Null, Some("")}
                                       THEN "HTTP error! status: 500"
                                       ELSE Last(seen).message[1])

\* three attempts, the last answered 429: the generic error
C4_Witness ==
    /\ fw.maxRetries = 3 /\ Len(seen) = 3
    /\ seen[1].kind = "network" /\ IsErrorResponse(seen[2]) /\ Is429(seen[3])
    /\ fw.pc = "threw" /\ fw.err = Some("Request failed after multiple retries.")

\* C10 (as claimed): when the call fails on a non-OK, non-429 response whose body is
\* not JSON, its message is the HTTP status fallback.
C10_MalformedErrorBodyFallsBack ==
    (/\ fw.pc = "threw"
     /\ Len(seen) >= 1
     /\ IsErrorResponse(Last(seen)) /\ ~Last(seen).json)
        => fw.err = Some("HTTP error! status: " \o ToString(Last(seen).status))

C15_TerminatesWithinBudget ==
    /\ <>Settled(fw)
    /\ [](/\ Len(fw.sent) <= fw.maxRetries
          /\ Len(seen) <= Len(fw.sent)
          /\ \A k \in 1..Len(seen) :
                IsOk(seen[k]) => Len(fw.sent) = k /\ Len(seen) = k /\ Settled(fw)
          /\ fw.maxRetries = 0 =>
                /\ fw.sent = <<>>
                /\ fw.pc = "threw"
                /\ fw.err = Some("Request failed after multiple retries."))

\* the second attempt was answered OK: two requests out of five, and the call is over
C15_Witness ==
    /\ fw.maxRetries = 5 /\ Len(seen) = 2 /\ IsOk(seen[2])
    /\ Settled(fw) /\ Len(fw.sent) = 2

----------------------------------------------------------------------------
(* Properties of the UI session, checked under Spec                        *)

\* 2^n
RECURSIVE Pow2(_)
Pow2(n) == IF n = 0 THEN 1 ELSE 2 * Pow2(n - 1)

\* C2: in every invocation, whatever its attempts met and whatever other invocations
\* run or ran, there is exactly one wait between two consecutive attempts, and the
\* wait before attempt k >= 1 is 1000 * 2^(k-1) ms (the first one 1000 ms).
C2_BackoffSchedule ==
    \A c \in 1..Len(calls) :
        LET f == calls[c].f IN
        /\ Len(f.sent) = f.i + 1
        /\ f.pc = "fetch" => Len(f.waits) = Len(f.sent) - 1
        /\ f.pc = "sleep" => Len(f.waits) = Len(f.sent)
        /\ \A k \in 1..Len(f.waits) : f.waits[k] = 1000 * Pow2(k - 1)

\* two invocations at once, one before its fourth attempt, the other before its second
C2_Witness ==
    \E c, d \in 1..Len(calls) :
        /\ calls[c].f.pc = "fetch" /\ calls[c].f.waits = <<1000, 2000, 4000>>
        /\ calls[d].f.pc = "fetch" /\ calls[d].f.waits = <<1000>>

\* C5: at most one text-generation and at most one image-generation invocation is
\* in flight (requesting or waiting to retry).
C5_OneInFlightPerKind ==
    /\ Cardinality(InFlight("ideas")) <= 1
    /\ Cardinality(InFlight("image")) <= 1

\* one of each at the same time
C5_Witness ==
    /\ Cardinality(InFlight("ideas")) = 1
    /\ Cardinality(InFlight("image")) = 1
    /\ \E c \in 1..Len(calls) : calls[c].f.pc = "fetch" /\ calls[c].f.i = 1

\* this step ends an invocation / moves one on to its next wait or attempt
Completes == Len(calls') < Len(calls)

Retries == Len(calls') = Len(calls) /\ calls' # calls

\* invocation k completes in this step by its catch block
FailedCompletion(k) ==
    /\ Completes
    /\ \E f \in Outcomes(k) : Settled(f) /\ Fails(calls[k].kind, f) /\ Resume(k, f)

\* C6 (as claimed), for generateIdeas and on the identity of the concepts: after a
\* failed generateIdeas the list holds the concepts that were on display when it started.
C6_FailureRestoresShownConcepts ==
    [][\A k \in 1..Len(calls) :
          calls[k].kind = "ideas" /\ FailedCompletion(k) => Ids(concepts') = calls[k].shown]_vars

\* C6 (amended): the failure itself changes no concept: the list after the failing
\* completion is the list just before it, which for generateIdeas is the empty list
\* it set when it started.
C6_FailureKeepsConcepts ==
    [][\A k \in 1..Len(calls) :
          FailedCompletion(k)
              => /\ concepts' = concepts
                 /\ calls[k].kind = "ideas" => concepts = <<>>]_vars

\* an image request has failed and both concepts, one with its image, are still there
C6_Witness ==
    /\ error = Some("Failed to generate image. Quota exceeded")
    /\ Len(concepts) = 2
    /\ concepts[1].imageUrl # Null
    /\ calls = <<>>

\* C7: a successful image response with data B gives the concepts whose id is
\* conceptId the imageUrl "data:image/png;base64," followed by B, and leaves every
\* other concept, the order and the length of the list as they were.
C7_ImageSetOnTargetOnly ==
    [][Completes =>
          \A k \in 1..Len(calls) : \A f \in Outcomes(k) :
              (/\ calls[k].kind = "image"
               /\ f.pc = "returned" /\ f.ret[1].b64 \notin {Null, Some("")}
               /\ Resume(k, f))
                  => /\ Len(concepts') = Len(concepts)
                     /\ \A j \in 1..Len(concepts) :
                           IF concepts[j].id = calls[k].conceptId[1]
                           THEN concepts'[j] =
                                  [id |-> concepts[j].id, text |-> concepts[j].text,
                                   imageUrl |-> Some("data:image/png;base64," \o f.ret[1].b64[1])]
                           ELSE concepts'[j] = concepts[j]]_vars

\* the second of two concepts has its image, the first has none
C7_Witness ==
    /\ Len(concepts) = 2
    /\ concepts[1].imageUrl = Null
    /\ concepts[2].imageUrl = Some("data:image/png;base64,QUJD")

\* C8: generateIdeas with an empty brief issues no request (no invocation starts, no
\* frame changes) and sets the error to the validation message.
C8_EmptyBriefNoRequest ==
    [][generateIdeas /\ brief = ""
          => calls' = calls /\ error' = Some("Please enter a creative brief.")]_vars

\* the validation message is shown and nothing is in flight
C8_Witness ==
    /\ brief = "" /\ apiKey # ""
    /\ error = Some("Please enter a creative brief.")
    /\ calls = <<>>

\* C9 (as claimed): when an invocation some attempt of which failed completes, that
\* failure has been logged or reported.
C9_FailedAttemptsSurfaced ==
    [][Completes =>
          \A k \in 1..Len(calls) : \A f \in Outcomes(k) :
              Settled(f) /\ calls[k].f.i > 0 /\ Resume(k, f)
                  => console' # Null \/ error' # Null]_vars

\* C9 (amended): a terminal failure of generateIdeas or visualizeConcept is logged
\* and the session error is set in the step that completes the action; an attempt
\* that fetchWithBackoff retries is neither logged nor reported.
C9_TerminalFailureSurfaced ==
    [][/\ \A k \in 1..Len(calls) :
             FailedCompletion(k)
                 => /\ error' # Null /\ error'[1] # ""
                    /\ console' # Null
                    /\ console'[1][1] = (IF calls[k].kind = "ideas" THEN "Error generating ideas:"
                                         ELSE "Error visualizing concept:")
       /\ Retries => console' = console /\ error' = error]_vars

\* a generation has failed after its retries were used up
C9_Witness ==
    /\ error = Some("Failed to generate ideas. Request failed after multiple retries.")
    /\ console = Some(<<"Error generating ideas:", "Request failed after multiple retries.">>)
    /\ ~isLoadingIdeas

\* C16: isLoadingIdeas is true exactly while a generateIdeas request is in flight;
\* loadingImageId is the id of the concept whose image request is in flight and null
\* when there is none; so once an action has completed, with success or failure, its
\* indicator is cleared and no longer disables its button.
C16_IndicatorsFollowRequests ==
    /\ isLoadingIdeas = (InFlight("ideas") # {})
    /\ \A k \in InFlight("image") : loadingImageId = calls[k].conceptId
    /\ InFlight("image") = {} => loadingImageId = Null /\ VisualizeEnabled
    /\ (InFlight("ideas") = {} /\ apiKey # "") => GenerateEnabled

\* a generation has failed and cleared its indicator while an image request, started
\* before it, is still in flight and keeps its own
C16_Witness ==
    /\ ~isLoadingIdeas /\ InFlight("ideas") = {}
    /\ error = Some("Failed to generate ideas. Quota exceeded")
    /\ \E k \in InFlight("image") : calls[k].replaced /\ loadingImageId = calls[k].conceptId

\* C17: the completion of an image request whose list has been replaced by a later
\* generation changes no concept: the list stays the one set by the most recent
\* generation, empty while that generation is in flight.
C17_StaleImageChangesNothing ==
    [][Completes =>
         \A k \in InFlight("image") :
             (calls[k].replaced /\ \E f \in Outcomes(k) : Settled(f) /\ Resume(k, f))
                 => concepts' = concepts]_vars

----------------------------------------------------------------------------
(* Properties of the parser, checked under SpecParse                       *)

HasText(f) == \E i \in 1..Len(f) : ~IsSpace(f[i])

\* t is f without its leading and trailing white space
IsTrimOf(t, f) ==
    \E a \in 1..Len(f) : \E b \in a..Len(f) :
        /\ t = SubSeq(f, a, b)
        /\ ~IsSpace(f[a]) /\ ~IsSpace(f[b])
        /\ \A i \in (1..(a - 1)) \cup ((b + 1)..Len(f)) : IsSpace(f[i])

\* C13: of a text made of numbered-list markers and fragments the parser returns the
\* fragments that are not blank, trimmed and in their order, each with imageUrl null
\* and an id of its own; of "1. Alpha\n2. Beta\n3. " it returns "Alpha" and "Beta".
C13_ParserReturnsFragments ==
    parser.result # Null =>
        LET res == parser.result[1]
            kept == SelectSeq(parser.frags, HasText)
        IN /\ Len(res) = Len(kept)
           /\ \A k \in 1..Len(res) :
                 /\ k <= Len(kept) => IsTrimOf(res[k].text, kept[k])
                 /\ res[k].imageUrl = Null
                 /\ \A j \in 1..Len(res) : j # k => res[j].id # res[k].id
           /\ parser.text = TextExample => [k \in 1..Len(res) |-> res[k].text] = <<Alpha, Beta>>

\* the example text has been parsed into two concepts
C13_Witness ==
    /\ parser.text = TextExample
    /\ parser.result # Null
    /\ Len(parser.result[1]) = 2
    /\ parser.result[1][2].text = Beta

----------------------------------------------------------------------------
(* Properties of the proxy, checked under SpecProxy and SpecProxyFair      *)

\* C11: a request whose prompt is missing or empty is answered 400 with
\* { error: "Prompt is required." }; no credential is acquired and nothing is sent
\* upstream for it.
C11_NoPromptRefused ==
    \A k \in 1..Len(proxy) :
        (proxy[k].prompt = Null \/ proxy[k].prompt = Some(""))
            => /\ proxy[k].responses = <<ErrorReply(400, "Prompt is required.")>>
               /\ proxy[k].auth = 0
               /\ proxy[k].sent = <<>>
               /\ proxy[k].pc = "done"

\* an empty prompt has been refused while a request with a prompt is sent upstream
C11_Witness ==
    /\ Len(proxy) = 2
    /\ proxy[1].prompt = Some("a cat") /\ proxy[1].pc = "fetch" /\ Len(proxy[1].sent) = 1
    /\ proxy[2].prompt = Some("") /\ proxy[2].pc = "done"
    /\ proxy[2].responses[1].status = 400

\* C12: a request with a prompt gets exactly one response: 500 with { error: message }
\* when a credential step fails, the upstream call throws or the upstream status is
\* not OK (the upstream's message when its body has one), and 200 with the provider's
\* payload only when the upstream response was OK.
C12_OneResponsePerRequest ==
    /\ <>[](\A k \in 1..Len(proxy) : Len(proxy[k].responses) = 1)
    /\ [](\A k \in 1..Len(proxy) :
            LET q == proxy[k] IN
            (q.prompt # Null /\ q.prompt # Some(""))
                => /\ Len(q.responses) = (IF q.pc = "done" THEN 1 ELSE 0)
                   /\ (q.failed # Null \/ (q.got # Null /\ ~IsOk(q.got[1])))
                         => /\ q.responses[1].status = 500
                            /\ q.responses[1].error # Null
                            /\ q.responses[1].error # Some("")
                            /\ q.responses[1].data = Null
                   /\ (q.got # Null /\ ~IsOk(q.got[1]) /\ q.got[1].kind = "http"
                          /\ q.got[1].message # Null /\ q.got[1].message # Some(""))
                         => q.responses[1].error = q.got[1].message
                   /\ (q.pc = "done" /\ q.responses[1].status = 200)
                         => /\ q.got # Null /\ IsOk(q.got[1])
                            /\ q.responses[1].data = Some(q.got[1].b64)
                            /\ q.responses[1].error = Null
                   /\ q.pc = "done" => q.responses[1].status \in {200, 500})

\* one request answered 500 with the upstream's message, another 200 with the payload
C12_Witness ==
    /\ Len(proxy) = 2
    /\ proxy[1].got = Some(Resp("http", 500, TRUE, Some("Quota exceeded"), Null, Null))
    /\ proxy[1].responses = <<ErrorReply(500, "Quota exceeded")>>
    /\ proxy[2].got = Some(PlainOk)
    /\ proxy[2].responses = <<DataReply(PlainOk)>>

====
